---- MODULE Spec2Model ----
(***************************************************************************)
(* Model of clinic/static/clinic/js/scripts.js: the change handler of the  *)
(* specialty control (id_specialty), the fetch promise chain it starts and *)
(* the doctor-selection control (id_doctor) that the chain rewrites.       *)
(*                                                                         *)
(* The page is single-threaded: every action below is one run-to-          *)
(* completion task of the event loop (DOMContentLoaded, a change event,    *)
(* the settlement of a fetch promise, the settlement of a response.json()  *)
(* promise).                                                               *)
(*                                                                         *)
(* Spec starts where the listeners have been attached on a page that has   *)
(* the three controls; PageSpec starts before DOMContentLoaded on a page   *)
(* that may lack any of them, and also delivers change events of id_date.  *)
(*                                                                         *)
(* The Cyrillic literals of the source are transliterated, strings of the  *)
(* module being ASCII:                                                     *)
(*   'Net dostupnykh vrachey'          = "no doctors available"  (line 20) *)
(*   'Snachala vyberite spetsialnost'  = "choose a specialty first" (l.25) *)
(***************************************************************************)
EXTENDS Integers, Sequences, FiniteSets, TLC

VARIABLES
    specialty,     \* value of the id_specialty control (this.value)
    doctorSelect,  \* child options of the id_doctor control, in document order
    inflight,      \* requests started by fetch() whose promise chain has not settled
    nFetch,        \* number of fetch() calls made so far (also numbers the requests)
    changes,       \* history: values of the change events of id_specialty, in order
    writes,        \* history: the rewrites of doctorSelect (assignments to its
                   \* innerHTML), in order: who wrote, and from which data
    elements,      \* ids of the controls the document holds
    listeners,     \* ids of the controls that have a change listener attached
    setup,         \* the DOMContentLoaded handler: "loading", "done" or "failed"
    dateEvents,    \* history: number of change events of id_date
    thrown         \* history: where a TypeError was thrown (null dereference)

vars == <<specialty, doctorSelect, inflight, nFetch, changes, writes,
          elements, listeners, setup, dateEvents, thrown>>

\* The part of the state that belongs to the page and its set-up
page == <<elements, listeners, setup, dateEvents, thrown>>

----------------------------------------------------------------------------
(* Bounds of the exploration *)

MaxEvents == 2     \* change events of id_specialty in one run
MaxDoctors == 2    \* length of a response array
MaxDateEvents == 1 \* change events of id_date in one run

----------------------------------------------------------------------------
(* Inputs: what the user can select and what the directory service answers *)

SpecialtyIds == {"1", "2"}

SpecialtyValues == {""} \cup SpecialtyIds

Doctors == {[id |-> 7, name |-> "Dr. Ivanova"], [id |-> 9, name |-> "Dr. Petrov"]}

RECURSIVE SeqsUpTo(_, _)
SeqsUpTo(S, n) ==
    IF n = 0 THEN {<<>>}
    ELSE LET shorter == SeqsUpTo(S, n - 1)
         IN  shorter \cup {Append(s, e) : s \in {t \in shorter : Len(t) = n - 1}, e \in S}

\* The JSON arrays of {id, name} objects the service can answer with
DoctorArrays == SeqsUpTo(Doctors, MaxDoctors)

\* A response body: JSON text holding an array, or text that is not JSON
JsonBody(data) == [json |-> TRUE, data |-> data]
NotJsonBody == [json |-> FALSE, data |-> <<>>]
Bodies == {JsonBody(d) : d \in DoctorArrays} \cup {NotJsonBody}

----------------------------------------------------------------------------
(* The DOM pieces the script uses *)

NoDoctorsText == "Net dostupnykh vrachey"
ChooseSpecialtyText == "Snachala vyberite spetsialnost"
ChooseSpecialtyMarkup == "<option value=\"\">Snachala vyberite spetsialnost</option>"

\* document.createElement('option'): no value attribute, no text, enabled
CreateOption == [hasValue |-> FALSE, value |-> "", textContent |-> "", disabled |-> FALSE]

\* option.value = v: sets the value attribute to the string form of v
SetValue(option, v) == [option EXCEPT !.hasValue = TRUE, !.value = ToString(v)]

\* option.textContent = t
SetTextContent(option, t) == [option EXCEPT !.textContent = t]

\* Reading option.value: the value attribute if there is one, else the text
OptionValue(option) == IF option.hasValue THEN option.value ELSE option.textContent

\* Assigning markup to innerHTML replaces all children by the parsed markup
InnerHTML(markup) ==
    CASE markup = "" -> <<>>
      [] markup = ChooseSpecialtyMarkup ->
            << [hasValue |-> TRUE, value |-> "",
                textContent |-> ChooseSpecialtyText, disabled |-> FALSE] >>

\* What id_doctor holds when the page is delivered: the template is not part
\* of the script, so the model starts from an empty control or from a
\* server-rendered list
PageOption(v, t) == [hasValue |-> TRUE, value |-> v, textContent |-> t, disabled |-> FALSE]
InitialChildren ==
    { <<>>,
      << PageOption("", "---------"), PageOption("7", "Dr. Ivanova"),
         PageOption("9", "Dr. Petrov") >> }

\* The controls the script looks up
ElementIds == {"id_specialty", "id_doctor", "id_date"}

\* document.getElementById(id): TRUE for an element, FALSE for null
GetElementById(document, id) == id \in document

----------------------------------------------------------------------------
(* The script *)

\* Variant with the test of line 6 inverted
TruthyInverted(specialtyId) == specialtyId = ""

\* if (specialtyId): a string is truthy unless it is empty
Truthy(specialtyId) == specialtyId # ""

\* Variant that leaves the selected value out of the URL
GetDoctorsUrlFixed(specialtyId) == "/get-doctors/?specialty_id="

\* `/get-doctors/?specialty_id=${specialtyId}`
GetDoctorsUrl(specialtyId) == "/get-doctors/?specialty_id=" \o specialtyId

\* The request a fetch(url) call starts; specialtyId is the closure variable
\* of its promise chain, no body has arrived yet
Request(id, url, specialtyId) ==
    [id |-> id, url |-> url, specialtyId |-> specialtyId,
     stage |-> "fetch", body |-> NotJsonBody]

\* Variant that aborts the requests already in flight
FetchAborting(pending, request) == {request}

\* fetch(url): one more request in flight; nothing already in flight is touched
Fetch(pending, request) == pending \cup {request}

\* Variant that turns a body that is not JSON into an empty array
ResponseJsonLenient(body) == [fulfilled |-> TRUE, data |-> body.data]

\* response.json(): fulfils with the parsed array, or rejects on a body that
\* is not JSON
ResponseJson(body) == [fulfilled |-> body.json, data |-> body.data]

\* Variant that inserts each option in front of the earlier ones
RECURSIVE ForEachAppendReversed(_, _)
ForEachAppendReversed(children, data) ==
    IF data = <<>> THEN children
    ELSE ForEachAppendReversed(
            <<SetTextContent(SetValue(CreateOption, Head(data).id), Head(data).name)>>
                \o children,
            Tail(data))

\* Variant that stops after the first doctor
ForEachAppendFirstOnly(children, data) ==
    IF data = <<>> THEN children
    ELSE Append(children,
                SetTextContent(SetValue(CreateOption, Head(data).id), Head(data).name))

\* data.forEach(doctor => { ... doctorSelect.appendChild(option) })
RECURSIVE ForEachAppend(_, _)
ForEachAppend(children, data) ==
    IF data = <<>> THEN children
    ELSE ForEachAppend(
            Append(children,
                   SetTextContent(SetValue(CreateOption, Head(data).id), Head(data).name)),
            Tail(data))

\* Variants of the data callback: without the else branch of lines 18-22,
\* without the clearing of line 10, and one that drops a response whose
\* specialty is no longer the selected one
ThenDataNoPlaceholder(children, specialtyId, thisValue, data) ==
    ForEachAppend(InnerHTML(""), data)
ThenDataAppending(children, specialtyId, thisValue, data) ==
    IF Len(data) > 0
    THEN ForEachAppend(children, data)
    ELSE Append(children, SetTextContent(CreateOption, NoDoctorsText))
ThenDataIfCurrent(children, specialtyId, thisValue, data) ==
    IF specialtyId # thisValue THEN children
    ELSE IF Len(data) > 0
         THEN ForEachAppend(InnerHTML(""), data)
         ELSE Append(InnerHTML(""), SetTextContent(CreateOption, NoDoctorsText))

\* The data callback of the chain (lines 9-23).  Its closure holds
\* specialtyId, doctorSelect and, being an arrow function, the handler's
\* `this` (the specialty control); it uses doctorSelect only.
ThenData(children, specialtyId, thisValue, data) ==
    LET cleared == InnerHTML("")
    IN  IF Len(data) > 0
        THEN ForEachAppend(cleared, data)
        ELSE Append(cleared, SetTextContent(CreateOption, NoDoctorsText))

\* History records: the control as delivered with the page, a rewrite by the
\* handler's else branch, a rewrite by the data callback of request r; `after`
\* is the number of change events that had occurred when the write was made
PageWrite == [by |-> "page", id |-> 0, specialtyId |-> "", data |-> <<>>, after |-> 0]
HandlerWrite(events) ==
    [by |-> "handler", id |-> 0, specialtyId |-> "", data |-> <<>>, after |-> events]
ResponseWrite(r, data, events) ==
    [by |-> "response", id |-> r.id, specialtyId |-> r.specialtyId, data |-> data,
     after |-> events]

\* Variant of the set-up that looks id_doctor up once, when the page loads
DOMContentLoadedEager(document) ==
    IF GetElementById(document, "id_specialty") /\ GetElementById(document, "id_doctor")
    THEN [setup |-> "done",
          listeners |-> {"id_specialty"} \cup
                        (IF GetElementById(document, "id_date") THEN {"id_date"} ELSE {}),
          thrown |-> {}]
    ELSE [setup |-> "failed", listeners |-> {}, thrown |-> {"setup"}]

\* The DOMContentLoaded handler (lines 1-36) on a document: line 2 dereferences
\* the result of getElementById('id_specialty'), null throwing a TypeError
\* that ends the handler; lines 30-35 attach the date listener if the control
\* exists.  id_doctor is not looked up here but in the change listener (line 4).
DOMContentLoaded(document) ==
    IF GetElementById(document, "id_specialty")
    THEN [setup |-> "done",
          listeners |-> {"id_specialty"} \cup
                        (IF GetElementById(document, "id_date") THEN {"id_date"} ELSE {}),
          thrown |-> {}]
    ELSE [setup |-> "failed", listeners |-> {}, thrown |-> {"setup"}]

\* The page with its three controls, once DOMContentLoaded has run
Init ==
    /\ specialty \in SpecialtyValues
    /\ doctorSelect \in InitialChildren
    /\ inflight = {}
    /\ nFetch = 0
    /\ changes = <<>>
    /\ writes = <<>>
    /\ elements = ElementIds
    /\ LET loaded == DOMContentLoaded(ElementIds)
       IN  /\ listeners = loaded.listeners
           /\ setup = loaded.setup
           /\ thrown = loaded.thrown
    /\ dateEvents = 0

\* A page that may lack any of the controls, before DOMContentLoaded
PageInit ==
    /\ elements \in SUBSET ElementIds
    /\ specialty \in (IF "id_specialty" \in elements THEN SpecialtyValues ELSE {""})
    /\ doctorSelect \in (IF "id_doctor" \in elements THEN InitialChildren ELSE {<<>>})
    /\ inflight = {}
    /\ nFetch = 0
    /\ changes = <<>>
    /\ writes = <<>>
    /\ listeners = {}
    /\ setup = "loading"
    /\ dateEvents = 0
    /\ thrown = {}

\* The DOMContentLoaded event of the page
Loaded ==
    /\ setup = "loading"
    /\ LET loaded == DOMContentLoaded(elements)
       IN  /\ listeners' = loaded.listeners
           /\ setup' = loaded.setup
           /\ thrown' = thrown \cup loaded.thrown
    /\ UNCHANGED <<specialty, doctorSelect, inflight, nFetch, changes, writes,
                   elements, dateEvents>>

\* Variant of the date listener that reloads the doctors of the selected
\* specialty
DateChangeReloading ==
    /\ "id_date" \in listeners
    /\ dateEvents < MaxDateEvents
    /\ dateEvents' = dateEvents + 1
    /\ doctorSelect' = InnerHTML("")
    /\ writes' = Append(writes, [by |-> "date", id |-> 0, specialtyId |-> "",
                                 data |-> <<>>, after |-> Len(changes)])
    /\ UNCHANGED <<specialty, inflight, nFetch, changes, elements, listeners, setup,
                   thrown>>

\* A change event of id_date: the listener of lines 32-34 has an empty body
DateChange ==
    /\ "id_date" \in listeners
    /\ dateEvents < MaxDateEvents
    /\ dateEvents' = dateEvents + 1
    /\ UNCHANGED <<specialty, doctorSelect, inflight, nFetch, changes, writes,
                   elements, listeners, setup, thrown>>

\* Variant of the listener that empties id_doctor when it starts a request
SpecialtyChangeClearing(v) ==
    /\ "id_specialty" \in listeners
    /\ Len(changes) < MaxEvents
    /\ specialty' = v
    /\ changes' = Append(changes, v)
    /\ LET specialtyId == v
           doctorSelectFound == GetElementById(elements, "id_doctor")
       IN  IF Truthy(specialtyId)
           THEN /\ inflight' = Fetch(inflight,
                                     Request(nFetch + 1, GetDoctorsUrl(specialtyId),
                                             specialtyId))
                /\ nFetch' = nFetch + 1
                /\ doctorSelect' = InnerHTML("")
                /\ writes' = Append(writes, HandlerWrite(Len(changes')))
                /\ UNCHANGED thrown
           ELSE IF doctorSelectFound
                THEN /\ doctorSelect' = InnerHTML(ChooseSpecialtyMarkup)
                     /\ writes' = Append(writes, HandlerWrite(Len(changes')))
                     /\ UNCHANGED <<inflight, nFetch, thrown>>
                ELSE /\ thrown' = thrown \cup {"handler"}
                     /\ UNCHANGED <<doctorSelect, writes, inflight, nFetch>>
    /\ UNCHANGED <<elements, listeners, setup, dateEvents>>

\* A change event of id_specialty: the control's value is v and the listener
\* runs (lines 2-27).  v may equal the previous value: the listener also runs
\* for change events dispatched by other scripts and never looks at an
\* earlier value.  Line 4 looks id_doctor up; on a page without it the else
\* branch dereferences null and throws.
SpecialtyChange(v) ==
    /\ "id_specialty" \in listeners
    /\ Len(changes) < MaxEvents
    /\ specialty' = v
    /\ changes' = Append(changes, v)
    /\ LET specialtyId == v
           doctorSelectFound == GetElementById(elements, "id_doctor")
       IN  IF Truthy(specialtyId)
           THEN /\ inflight' = Fetch(inflight,
                                     Request(nFetch + 1, GetDoctorsUrl(specialtyId),
                                             specialtyId))
                /\ nFetch' = nFetch + 1
                /\ UNCHANGED <<doctorSelect, writes, thrown>>
           ELSE IF doctorSelectFound
                THEN /\ doctorSelect' = InnerHTML(ChooseSpecialtyMarkup)
                     /\ writes' = Append(writes, HandlerWrite(Len(changes')))
                     /\ UNCHANGED <<inflight, nFetch, thrown>>
                ELSE /\ thrown' = thrown \cup {"handler"}
                     /\ UNCHANGED <<doctorSelect, writes, inflight, nFetch>>
    /\ UNCHANGED <<elements, listeners, setup, dateEvents>>

\* Variant in which the first callback of the chain empties id_doctor as soon
\* as the response head arrives
FetchFulfilledClearing(r, body) ==
    /\ r \in inflight
    /\ r.stage = "fetch"
    /\ inflight' = (inflight \ {r}) \cup {[r EXCEPT !.stage = "json", !.body = body]}
    /\ doctorSelect' = InnerHTML("")
    /\ writes' = Append(writes, ResponseWrite(r, <<>>, Len(changes)))
    /\ UNCHANGED <<specialty, nFetch, changes, page>>

\* The fetch promise of r fulfils: the response head has arrived and
\* response.json() starts reading the body the service sent
FetchFulfilled(r, body) ==
    /\ r \in inflight
    /\ r.stage = "fetch"
    /\ inflight' = (inflight \ {r}) \cup {[r EXCEPT !.stage = "json", !.body = body]}
    /\ UNCHANGED <<specialty, doctorSelect, nFetch, changes, writes, page>>

\* The fetch promise of r rejects (network failure): the chain has no
\* rejection handler, so both then-callbacks are skipped
FetchRejected(r) ==
    /\ r \in inflight
    /\ r.stage = "fetch"
    /\ inflight' = inflight \ {r}
    /\ UNCHANGED <<specialty, doctorSelect, nFetch, changes, writes, page>>

\* The response.json() promise of r settles: fulfilled, the data callback
\* runs to completion; rejected, it is skipped.  On a page without id_doctor
\* the callback's doctorSelect is null and line 10 throws.
JsonSettled(r) ==
    /\ r \in inflight
    /\ r.stage = "json"
    /\ inflight' = inflight \ {r}
    /\ LET result == ResponseJson(r.body)
           doctorSelectFound == GetElementById(elements, "id_doctor")
       IN  IF result.fulfilled
           THEN IF doctorSelectFound
                THEN /\ doctorSelect' = ThenData(doctorSelect, r.specialtyId, specialty,
                                                 result.data)
                     /\ writes' = Append(writes,
                                         ResponseWrite(r, result.data, Len(changes)))
                     /\ UNCHANGED thrown
                ELSE /\ thrown' = thrown \cup {"callback"}
                     /\ UNCHANGED <<doctorSelect, writes>>
           ELSE UNCHANGED <<doctorSelect, writes, thrown>>
    /\ UNCHANGED <<specialty, nFetch, changes, elements, listeners, setup, dateEvents>>

Next ==
    \/ \E v \in SpecialtyValues : SpecialtyChange(v)
    \/ \E r \in inflight : \E body \in Bodies : FetchFulfilled(r, body)
    \/ \E r \in inflight : FetchRejected(r)
    \/ \E r \in inflight : JsonSettled(r)

\* The latest rewrite of doctorSelect, or the page's delivery if there is none
lastWrite == IF writes = <<>> THEN PageWrite ELSE writes[Len(writes)]

Spec == Init /\ [][Next]_vars

\* The whole life of a page: set-up, then change events of both controls and
\* the responses
PageNext ==
    \/ Loaded
    \/ DateChange
    \/ Next

PageSpec == PageInit /\ [][PageNext]_vars

----------------------------------------------------------------------------
(* Vocabulary of the properties *)

\* The step is a change event of id_specialty
ChangeEvent == Len(changes') = Len(changes) + 1

\* The step is a change event whose value is empty / is not empty
EmptyChangeEvent == ChangeEvent /\ specialty' = ""
NonEmptyChangeEvent == ChangeEvent /\ specialty' # ""

\* Request r leaves the in-flight set in the step
Settles(r) == r \in inflight /\ \A q \in inflight' : q.id # r.id

\* The step delivers the successfully parsed response of r to the data callback
Delivers(r) == Settles(r) /\ r.stage = "json" /\ r.body.json

\* The step delivers a failure of r: the network failed or the body is not JSON
Fails(r) == Settles(r) /\ (r.stage = "fetch" \/ ~r.body.json)

\* The options a response array is expected to be shown as: one option per
\* doctor, in array order, or the one "no doctors available" option
DoctorOption(doctor) ==
    [hasValue |-> TRUE, value |-> ToString(doctor.id),
     textContent |-> doctor.name, disabled |-> FALSE]
NoDoctorsOption ==
    [hasValue |-> FALSE, value |-> "", textContent |-> NoDoctorsText, disabled |-> FALSE]
Rendering(data) ==
    IF data = <<>> THEN <<NoDoctorsOption>>
    ELSE [i \in 1..Len(data) |-> DoctorOption(data[i])]

----------------------------------------------------------------------------
\* C1: in every reachable state, whenever the doctor-selection control shows
\* the rendering of a lookup response, that response answers a request issued
\* for the specialty currently selected in the specialty control.
C1_ShowsCurrentSpecialty ==
    (lastWrite.by = "response" /\ Len(lastWrite.data) > 0) =>
        /\ doctorSelect = Rendering(lastWrite.data)
        /\ lastWrite.specialtyId = specialty

\* C2: a change event with an empty value leaves the doctor-selection control
\* with exactly one option, the "choose a specialty first" placeholder with
\* empty value, and issues no request: the in-flight set is unchanged.
C2_EmptyChange ==
    [][EmptyChangeEvent =>
          /\ Len(doctorSelect') = 1
          /\ doctorSelect'[1].textContent = ChooseSpecialtyText
          /\ OptionValue(doctorSelect'[1]) = ""
          /\ inflight' = inflight
          /\ nFetch' = nFetch]_vars

\* C2 witness: an empty change event has put the placeholder in the control
\* while the request of the previous change event is still in flight
C2_Witness ==
    /\ Len(changes) = 2 /\ changes[1] # "" /\ changes[2] = ""
    /\ specialty = ""
    /\ writes = <<HandlerWrite(2)>>
    /\ Len(doctorSelect) = 1 /\ doctorSelect[1].textContent = ChooseSpecialtyText
    /\ \E r \in inflight : r.id = 1 /\ r.specialtyId = changes[1]

\* C3: a successfully parsed response that is a non-empty array of N doctors
\* leaves the control with exactly N options, the i-th having the value (as a
\* string) and the label of the i-th doctor, whatever the control held before.
C3_NonEmptyResponse ==
    [][\A r \in inflight :
          (Delivers(r) /\ Len(r.body.data) > 0) =>
              /\ Len(doctorSelect') = Len(r.body.data)
              /\ \A i \in 1..Len(r.body.data) :
                    /\ OptionValue(doctorSelect'[i]) = ToString(r.body.data[i].id)
                    /\ doctorSelect'[i].textContent = r.body.data[i].name]_vars

\* C3 witness: a list of two different doctors has replaced an earlier,
\* different list
C3_Witness ==
    /\ Len(writes) = 2 /\ writes[2].by = "response" /\ writes[1].by = "response"
    /\ Len(writes[2].data) = 2 /\ writes[2].data[1] # writes[2].data[2]
    /\ Len(writes[1].data) = 2 /\ writes[1].data # writes[2].data
    /\ Len(doctorSelect) = 2
    /\ OptionValue(doctorSelect[1]) = ToString(writes[2].data[1].id)
    /\ OptionValue(doctorSelect[2]) = ToString(writes[2].data[2].id)

\* C4: a successfully parsed response that is an empty array leaves the
\* control with exactly one option, the "no doctors available" placeholder;
\* nothing of the previous content remains.
C4_EmptyResponse ==
    [][\A r \in inflight :
          (Delivers(r) /\ r.body.data = <<>>) =>
              /\ Len(doctorSelect') = 1
              /\ doctorSelect'[1].textContent = NoDoctorsText]_vars

\* C4 witness: the "no doctors available" placeholder has replaced a rendered
\* list of two doctors
C4_Witness ==
    /\ Len(writes) = 2 /\ writes[1].by = "response" /\ Len(writes[1].data) = 2
    /\ writes[2].by = "response" /\ writes[2].data = <<>>
    /\ Len(doctorSelect) = 1 /\ doctorSelect[1].textContent = NoDoctorsText

\* C5: responses are applied in arrival order, whatever the order of the
\* requests: a successfully parsed response that arrives for a specialty that
\* is no longer the selected one, or for a request that is not the latest
\* one, is rendered all the same and becomes the content of the control.
C5_LastArrivalWins ==
    [][\A r \in inflight :
          (Delivers(r) /\ (r.specialtyId # specialty \/ r.id < nFetch)) =>
              doctorSelect' = Rendering(r.body.data)]_vars

\* C5 witness: specialty A then specialty B were selected, both requests were
\* in flight together, B's response was rendered first and A's last: the
\* specialty control shows B, the doctor control A's list, nothing in flight
C5_Witness ==
    /\ Len(changes) = 2 /\ changes[1] # "" /\ changes[2] # ""
    /\ changes[1] # changes[2]
    /\ specialty = changes[2]
    /\ inflight = {}
    /\ Len(writes) = 2
    /\ writes[1].by = "response" /\ writes[1].id = 2
    /\ writes[1].specialtyId = changes[2]
    /\ writes[2].by = "response" /\ writes[2].id = 1
    /\ writes[2].specialtyId = changes[1]
    /\ Len(writes[2].data) > 0 /\ writes[1].data # writes[2].data
    /\ doctorSelect = Rendering(writes[2].data)

\* C6: a failed request (the network failed, or the body is not JSON) leaves
\* the control exactly as it was, options neither cleared nor replaced, and
\* issues no further request.
C6_FailureLeavesControl ==
    [][\A r \in inflight :
          Fails(r) =>
              /\ doctorSelect' = doctorSelect
              /\ writes' = writes
              /\ nFetch' = nFetch
              /\ inflight' = inflight \ {r}]_vars

\* C6 witness: two requests were issued and both have failed; the control
\* still holds the list delivered with the page
C6_Witness ==
    /\ nFetch = 2
    /\ inflight = {}
    /\ writes = <<>>
    /\ Len(doctorSelect) = 3

\* The change events so far whose value was not empty
NonEmptyChanges == {i \in 1..Len(changes) : changes[i] # ""}

\* The change event that issued request r, and whether a later one followed
IssuedAt(r) ==
    CHOOSE i \in 1..Len(changes) :
        /\ changes[i] # ""
        /\ Cardinality({j \in 1..i : changes[j] # ""}) = r.id
Superseded(r) == IssuedAt(r) < Len(changes)

\* C7: the number of requests issued equals the number of change events with
\* a non-empty value (one request per such event, also when the value was
\* requested before, and none otherwise), and every request in flight asks
\* for the URL built from the value selected at the event that issued it.
C7_OneRequestPerChange ==
    /\ nFetch = Cardinality(NonEmptyChanges)
    /\ \A r \in inflight :
          /\ r.id \in 1..nFetch
          /\ r.url = "/get-doctors/?specialty_id=" \o changes[IssuedAt(r)]
    /\ \A q, r \in inflight : q.id = r.id => q = r

\* C7 witness: the same specialty was selected twice and two requests for the
\* same URL are in flight
C7_Witness ==
    /\ Len(changes) = 2 /\ changes[1] = changes[2] /\ changes[1] # ""
    /\ nFetch = 2
    /\ \E q1, q2 \in inflight :
          q1.id # q2.id /\ q1.url = q2.url
          /\ q1.url = "/get-doctors/?specialty_id=" \o changes[1]

\* C8: a change event, with an empty or a non-empty value, removes no request
\* from the in-flight set; the successful response of a request that a later
\* change event has superseded is still written to the control when it
\* arrives.
C8_NoAbort ==
    [][/\ ChangeEvent => \A r \in inflight : r \in inflight'
       /\ \A r \in inflight :
             (Delivers(r) /\ Superseded(r)) =>
                 /\ writes' = Append(writes, ResponseWrite(r, r.body.data, Len(changes)))
                 /\ doctorSelect' = Rendering(r.body.data)]_vars

\* C8 witness: a request was issued, an empty change event followed while it
\* was in flight, and its response was rendered afterwards
C8_Witness ==
    /\ Len(changes) = 2 /\ changes[1] # "" /\ changes[2] = ""
    /\ specialty = ""
    /\ inflight = {}
    /\ Len(writes) = 2
    /\ writes[1] = HandlerWrite(2)
    /\ writes[2].by = "response" /\ writes[2].id = 1 /\ writes[2].after = 2
    /\ Len(writes[2].data) = 2
    /\ doctorSelect = Rendering(writes[2].data)

\* C9 (as stated): every change event of the specialty control discards and
\* rebuilds the contents of the doctor-selection control.
C9_RebuiltOnEachChange ==
    [][ChangeEvent => Len(writes') = Len(writes) + 1]_vars

\* The option the placeholder markup of the else branch is expected to give
ChooseSpecialtyOption ==
    [hasValue |-> TRUE, value |-> "", textContent |-> ChooseSpecialtyText,
     disabled |-> FALSE]

\* C9 (amended): the contents are discarded and rebuilt by every change event
\* with an empty value and by every successful response carrying an array of
\* doctors; a change event with a non-empty value leaves the contents as they
\* are.
C9_RebuiltOnEmptyChangeOrResponse ==
    [][/\ EmptyChangeEvent =>
             /\ Len(writes') = Len(writes) + 1
             /\ doctorSelect' = <<ChooseSpecialtyOption>>
       /\ NonEmptyChangeEvent =>
             /\ writes' = writes
             /\ doctorSelect' = doctorSelect
       /\ \A r \in inflight :
             Delivers(r) =>
                 /\ Len(writes') = Len(writes) + 1
                 /\ doctorSelect' = Rendering(r.body.data)]_vars

\* C9 witness: after a second, non-empty change event the control still holds
\* the list rendered for the first one, the new request being in flight
C9_Witness ==
    /\ Len(changes) = 2 /\ changes[1] # "" /\ changes[2] # ""
    /\ changes[1] # changes[2]
    /\ specialty = changes[2]
    /\ Len(writes) = 1 /\ writes[1].by = "response" /\ writes[1].after = 1
    /\ writes[1].specialtyId = changes[1] /\ Len(writes[1].data) = 2
    /\ doctorSelect = Rendering(writes[1].data)
    /\ \E r \in inflight : inflight = {r} /\ r.id = 2

\* C10: when the control was last written from the response to a request for
\* some specialty, a later response to a request for the same specialty that
\* carries the same array leaves the control's options exactly as they are.
C10_Idempotent ==
    [][\A r \in inflight :
          (/\ Delivers(r)
           /\ lastWrite.by = "response"
           /\ lastWrite.specialtyId = r.specialtyId
           /\ lastWrite.data = r.body.data) =>
              doctorSelect' = doctorSelect]_vars

\* C10 witness: the same specialty was selected twice, the first response
\* arriving before the second selection, both responses carrying the same
\* two doctors; the control holds what it held after the first response
C10_Witness ==
    /\ Len(changes) = 2 /\ changes[1] = changes[2] /\ changes[1] # ""
    /\ inflight = {}
    /\ Len(writes) = 2
    /\ writes[1].by = "response" /\ writes[1].id = 1 /\ writes[1].after = 1
    /\ writes[2].by = "response" /\ writes[2].id = 2 /\ writes[2].after = 2
    /\ writes[1].data = writes[2].data /\ Len(writes[2].data) = 2
    /\ doctorSelect = Rendering(writes[1].data)

\* C11 (as stated): set-up completes, with the specialty listener attached,
\* on a page that lacks only the date control, and fails on a page that lacks
\* the specialty control or the doctor-selection control.
C11_SetupFailsWithoutSpecialtyOrDoctor ==
    setup # "loading" =>
        /\ (setup = "failed") <=>
              ("id_specialty" \notin elements \/ "id_doctor" \notin elements)
        /\ setup = "done" => "id_specialty" \in listeners

\* C11 (amended): set-up fails exactly on a page that lacks the specialty
\* control, and then attaches no listener at all; on every other page it
\* completes with the specialty listener attached, and the date listener
\* attached exactly if the date control exists.  A page that lacks the
\* doctor-selection control fails later, never at set-up: nothing is ever
\* written, an empty change event throws in the listener and a TypeError is
\* thrown nowhere but in the listener and the data callback.
C11_SetupFailsWithoutSpecialtyOnly ==
    /\ setup # "loading" =>
          /\ (setup = "failed") <=> ("id_specialty" \notin elements)
          /\ setup = "failed" => (listeners = {} /\ thrown = {"setup"})
          /\ setup = "done" =>
                /\ "id_specialty" \in listeners
                /\ ("id_date" \in listeners) <=> ("id_date" \in elements)
                /\ "setup" \notin thrown
    /\ "id_doctor" \in elements => thrown \subseteq {"setup"}
    /\ "id_doctor" \notin elements =>
          /\ writes = <<>>
          /\ (\E i \in 1..Len(changes) : changes[i] = "") => "handler" \in thrown

\* C11 witness: on a page with the specialty control only, set-up has
\* completed, and the missing doctor control has made both the listener (on
\* an empty selection) and the data callback (on a response) throw
C11_Witness ==
    /\ elements = {"id_specialty"}
    /\ setup = "done"
    /\ listeners = {"id_specialty"}
    /\ thrown = {"handler", "callback"}
    /\ inflight = {}

\* C12: every placeholder option the script puts in the doctor-selection
\* control ("choose a specialty first", "no doctors available") is disabled.
C12_PlaceholdersDisabled ==
    \A i \in 1..Len(doctorSelect) :
        doctorSelect[i].textContent \in {ChooseSpecialtyText, NoDoctorsText} =>
            doctorSelect[i].disabled

\* C13: a change event of the date control leaves the options of the
\* doctor-selection control, the specialty value and the in-flight requests
\* as they are, and the options change in no step other than an empty change
\* event of the specialty control or the delivery of a parsed response.
DateChangeEvent == dateEvents' # dateEvents
C13_DateChangeChangesNothing ==
    [][/\ DateChangeEvent =>
             /\ doctorSelect' = doctorSelect
             /\ specialty' = specialty
             /\ inflight' = inflight
             /\ nFetch' = nFetch
             /\ writes' = writes
       /\ doctorSelect' # doctorSelect =>
             \/ EmptyChangeEvent
             \/ \E r \in inflight : Delivers(r)]_vars

\* C13 witness: a date change event has occurred on a page whose control
\* holds a rendered list of two doctors, with a request in flight
C13_Witness ==
    /\ dateEvents = 1
    /\ "id_date" \in listeners
    /\ Len(writes) = 1 /\ writes[1].by = "response" /\ Len(writes[1].data) = 2
    /\ doctorSelect = Rendering(writes[1].data)
    /\ \E r \in inflight : r.id = 2

\* C14: a change event with a non-empty value does not modify the
\* doctor-selection control, and neither does any later step before a
\* response is delivered (or an empty change event occurs): the options of
\* the previously selected specialty stay while the new request is in flight.
C14_NonEmptyChangeKeepsOptions ==
    [][/\ NonEmptyChangeEvent => doctorSelect' = doctorSelect
       /\ (~EmptyChangeEvent /\ \A r \in inflight : ~Delivers(r)) =>
             doctorSelect' = doctorSelect]_vars

\* C14 witness: specialty B is selected and its response body is on its way,
\* while the control still shows the doctors rendered for specialty A
C14_Witness ==
    /\ Len(changes) = 2 /\ changes[1] # "" /\ changes[2] # ""
    /\ changes[1] # changes[2]
    /\ specialty = changes[2]
    /\ Len(writes) = 1 /\ writes[1].by = "response" /\ writes[1].id = 1
    /\ writes[1].specialtyId = changes[1] /\ Len(writes[1].data) > 0
    /\ doctorSelect = Rendering(writes[1].data)
    /\ \E r \in inflight :
          /\ inflight = {r}
          /\ r.id = 2 /\ r.specialtyId = changes[2] /\ r.stage = "json"
          /\ r.body.json /\ r.body.data # writes[1].data

----------------------------------------------------------------------------
(* Sequential use: a change event of the specialty control occurs only when
   no request is in flight, and every request succeeds *)

SequentialNext ==
    \/ \E v \in SpecialtyValues : inflight = {} /\ SpecialtyChange(v)
    \/ \E r \in inflight : \E data \in DoctorArrays : FetchFulfilled(r, JsonBody(data))
    \/ \E r \in inflight : JsonSettled(r)

SequentialSpec == Init /\ [][SequentialNext]_vars

\* C15: in sequential use, once a change event has occurred and no request is
\* in flight, the control shows the "choose a specialty first" placeholder if
\* the selection is empty, and otherwise the rendering of the response to the
\* latest request, which was issued for the selected specialty.
C15_SequentialShowsCurrent ==
    (inflight = {} /\ changes # <<>>) =>
        IF specialty = ""
        THEN doctorSelect = <<ChooseSpecialtyOption>>
        ELSE /\ lastWrite.by = "response"
             /\ lastWrite.id = nFetch
             /\ lastWrite.specialtyId = specialty
             /\ doctorSelect = Rendering(lastWrite.data)

\* C15 witness: specialty A, then specialty B were selected one after the
\* other, each response arriving before the next event; the control shows
\* B's doctors, which differ from A's
C15_Witness ==
    /\ Len(changes) = 2 /\ changes[1] # "" /\ changes[2] # ""
    /\ changes[1] # changes[2]
    /\ specialty = changes[2]
    /\ inflight = {}
    /\ Len(writes) = 2
    /\ writes[1].id = 1 /\ writes[1].after = 1
    /\ writes[2].id = 2 /\ writes[2].after = 2
    /\ writes[2].specialtyId = specialty
    /\ Len(writes[2].data) = 2 /\ writes[1].data # writes[2].data
    /\ doctorSelect = Rendering(writes[2].data)

----------------------------------------------------------------------------
\* C16: between events the content of the control is always whole: the
\* content delivered with the page, the "choose a specialty first"
\* placeholder, the "no doctors available" placeholder, or the complete
\* rendering of one response array; after a response was the last to write
\* it, it is the rendering of exactly that response.
C16_ContentIsWhole ==
    /\ \/ doctorSelect \in InitialChildren
       \/ doctorSelect = <<ChooseSpecialtyOption>>
       \/ doctorSelect = <<NoDoctorsOption>>
       \/ \E data \in DoctorArrays : data # <<>> /\ doctorSelect = Rendering(data)
    /\ writes = <<>> => doctorSelect \in InitialChildren
    /\ lastWrite.by = "handler" => doctorSelect = <<ChooseSpecialtyOption>>
    /\ lastWrite.by = "response" => doctorSelect = Rendering(lastWrite.data)

\* C16 witness: two requests were in flight together and their responses,
\* two different lists of two doctors, arrived one after the other; the
\* control holds the second list only
C16_Witness ==
    /\ Len(changes) = 2 /\ nFetch = 2
    /\ inflight = {}
    /\ Len(writes) = 2
    /\ writes[1].by = "response" /\ writes[1].id = 1 /\ writes[1].after = 2
    /\ writes[2].by = "response" /\ writes[2].id = 2 /\ writes[2].after = 2
    /\ Len(writes[1].data) = 2 /\ Len(writes[2].data) = 2
    /\ writes[1].data # writes[2].data
    /\ doctorSelect = Rendering(writes[2].data)

\* The rewrites of the control made for request number k
WritesOf(k) == {i \in 1..Len(writes) : writes[i].by = "response" /\ writes[i].id = k}

\* C17: every request rewrites the control at most once, and not while it is
\* in flight; the rewrites are no more than the change events of the
\* specialty control; and once no request is in flight the control changes in
\* no step but a change event of the specialty control.
C17_AtMostOneWritePerRequest ==
    [][/\ \A k \in 1..nFetch' : Cardinality(WritesOf(k)') <= 1
       /\ \A r \in inflight' : WritesOf(r.id)' = {}
       /\ Len(writes') <= Len(changes')
       /\ (inflight = {} /\ ~ChangeEvent) =>
             (doctorSelect' = doctorSelect /\ writes' = writes)]_vars

\* C17 witness: of two requests one failed and one succeeded, a date change
\* event came in between or after, and the control was rewritten once
C17_Witness ==
    /\ Len(changes) = 2 /\ nFetch = 2
    /\ inflight = {}
    /\ dateEvents = 1
    /\ Len(writes) = 1 /\ writes[1].by = "response" /\ Len(writes[1].data) = 2
    /\ doctorSelect = Rendering(writes[1].data)

====
